---- MODULE Spec2Model ----
(***************************************************************************)
(* Gateway supervision of beacon-app (src-tauri): the shared AppState,     *)
(* the IPC commands start_gateway / stop_gateway, the start-up task        *)
(* auto_connect, the sidecar bring-up start_sidecar, the shutdown routine  *)
(* stop_sidecar and the health loop monitor_sidecar.                       *)
(*                                                                         *)
(* Every task runs on the multi-threaded async runtime, so one step of the *)
(* model is one access to a lock-protected field of AppState.  What a task *)
(* does between two such accesses touches no field of AppState (local      *)
(* code, a sleep, a network probe, a call into the operating system), so   *)
(* it is folded into the access next to it: no other task can tell when    *)
(* between the two accesses it happened.                                   *)
(***************************************************************************)
EXTENDS Naturals, FiniteSets, Sequences, TLC

\* ---------------------------------------------------------------- bounds
\* Number of child processes the operating system lets the supervisor spawn
\* in one run of the model.
MaxSpawns == 2
\* GATEWAY_STARTUP_TIMEOUT measured in readiness-poll rounds.
StartupPolls == 2

\* ---------------------------------------------------------------- values
None == "none"
\* Option<Child>::None; a Child is named by its pid, 1..MaxSpawns.
NoChild == 0

LocalUrl == "http://localhost:18790"
OtherUrl == "http://other-host"
Urls == {LocalUrl, OtherUrl}
\* run(): BEACON_GATEWAY_URL unset
DefaultGatewayUrl == LocalUrl

Pids == 1..MaxSpawns

AutoTask == "auto"
MonTask == "mon"
CmdTasks == {"cmd1", "cmd2"}
\* the commands in flight beside the monitor in SpecMon
MonCmdTasks == {"cmd1"}
Tasks == CmdTasks \cup {AutoTask, MonTask}

\* enum GatewayState
Disconnected == [tag |-> "Disconnected", url |-> None, is_sidecar |-> FALSE, error |-> None]
Starting == [tag |-> "Starting", url |-> None, is_sidecar |-> FALSE, error |-> None]
Connected(u, s) == [tag |-> "Connected", url |-> u, is_sidecar |-> s, error |-> None]
Failed(e) == [tag |-> "Failed", url |-> None, is_sidecar |-> FALSE, error |-> e]

ErrNotFound == "beacon-gateway binary not found"
ErrSpawn == "failed to start gateway"
ErrTimeout == "gateway failed to start within timeout"
ErrExited == "gateway exited with status"
ErrConnect == "failed to connect to gateway"

\* ---------------------------------------------------------------- find_gateway_binary
\* The four tiers of candidates, in the order the code tries them.
Tiers == <<"env", "sidecar", "path", "dev">>
NotFound == "NotFound"

\* std::env::var("BEACON_GATEWAY_PATH") is Ok
EnvSet == "BEACON_GATEWAY_PATH is set"
\* the path BEACON_GATEWAY_PATH names
EnvPath == "override"

\* Every candidate with its tier, in the order the code tries them.  exe_dir is
\* the directory of current_exe(); the candidate of the tier "path" is what
\* `which beacon` prints when it succeeds.
Candidates == <<
    [tier |-> "env", path |-> EnvPath],
    [tier |-> "sidecar", path |-> "exe_dir/beacon-gateway"],
    [tier |-> "sidecar", path |-> "exe_dir/beacon"],
    [tier |-> "sidecar", path |-> "exe_dir/../Resources/beacon-gateway"],
    [tier |-> "sidecar", path |-> "exe_dir/../Resources/beacon"],
    [tier |-> "path", path |-> "PATH/beacon"],
    [tier |-> "dev", path |-> "../../beacon-gateway/target/debug/beacon"],
    [tier |-> "dev", path |-> "../../beacon-gateway/target/release/beacon"],
    [tier |-> "dev", path |-> "../../../services/beacon-gateway/target/debug/beacon"],
    [tier |-> "dev", path |-> "../../../services/beacon-gateway/target/release/beacon"] >>

\* fs is the set of facts about the machine: the paths that exist, and EnvSet.
\* Candidate c is there to be returned: p.exists(), for the override once the
\* variable is set at all.
Exists(fs, c) ==
    IF c.tier = "env" THEN EnvSet \in fs /\ c.path \in fs ELSE c.path \in fs

RECURSIVE FirstExisting(_, _)
FirstExisting(fs, i) ==
    IF i > Len(Candidates) THEN NotFound
    ELSE IF Exists(fs, Candidates[i]) THEN Candidates[i].path
    ELSE FirstExisting(fs, i + 1)

\* find_gateway_binary skipping the override: the search starts at the
\* sidecar-relative candidates.
find_gateway_binary_no_override(fs) == FirstExisting(fs, 2)

find_gateway_binary(fs) == FirstExisting(fs, 1)

Facts == {EnvSet} \cup {Candidates[i].path : i \in 1..Len(Candidates)}
\* Every machine the locator can run on.
Disks == SUBSET Facts
\* The machines the bring-up is run on: nothing installed, or one candidate.
FileSystems ==
    {{}} \cup {{EnvSet, EnvPath}} \cup {{Candidates[i].path} : i \in 2..Len(Candidates)}

\* ---------------------------------------------------------------- locks
\* The three RwLocks of AppState.
Locks == {"gateway_state", "gateway_url", "sidecar_process"}

\* ---------------------------------------------------------------- state
VARIABLES
    gateway_state,    \* AppState.gateway_state
    gateway_url,      \* AppState.gateway_url: None or a url
    sidecar_process,  \* AppState.sidecar_process: None or the pid of the Child held
    process_lock,     \* the task holding the write guard of sidecar_process, or None
    procs,            \* operating system: pid -> "unspawned" | "running" | "exited"
    pc,               \* task -> where the task is
    op,               \* command task -> the command it is running, or None
    arg,              \* task -> the url it works with (request.url, or the url read)
    child,            \* task -> the pid spawned by the bring-up it is running
    taken,            \* task -> what process.take() gave it in stop_sidecar
    elapsed,          \* task -> poll rounds elapsed in wait_for_gateway
    err,              \* auto_connect: the error start_sidecar returned
    result,           \* the Result most recently returned to the frontend by a command
    guards,           \* lock -> the guards alive: records [task, mode]
    waiters,          \* lock -> the queue of requests not yet granted
    script,           \* task -> the lock operations left of the function it runs
    disk,             \* find_gateway_binary: the facts about the machine it runs on
    gateway_path      \* find_gateway_binary: what it returned, None before

vars == <<gateway_state, gateway_url, sidecar_process, process_lock, procs, pc, op,
          arg, child, taken, elapsed, err, result, guards, waiters, script, disk,
          gateway_path>>

\* The supervisor proper: the fields of AppState, the processes and the tasks.
app == <<gateway_state, gateway_url, sidecar_process, process_lock, procs, pc, op,
         arg, child, taken, elapsed, err, result>>
\* The lock-level view of the same functions (SpecLocks).
lockview == <<guards, waiters, script>>
\* The locator run on its own (SpecLocate).
locator == <<disk, gateway_path>>

shared == <<gateway_state, gateway_url, sidecar_process>>
locals == <<arg, child, taken, elapsed, err>>

IsSidecarConnected(s) == s.tag = "Connected" /\ s.is_sidecar

\* ---------------------------------------------------------------- results
\* struct GatewayStatus, and the Result a command hands back to the frontend.
NoStatus == [state |-> None, url |-> None, is_sidecar |-> FALSE, error |-> None]

get_gateway_status(s) ==
    IF s.tag = "Disconnected"
    THEN [state |-> "disconnected", url |-> None, is_sidecar |-> FALSE, error |-> None]
    ELSE IF s.tag = "Starting"
    THEN [state |-> "starting", url |-> None, is_sidecar |-> TRUE, error |-> None]
    ELSE IF s.tag = "Connected"
    THEN [state |-> "connected", url |-> s.url, is_sidecar |-> s.is_sidecar, error |-> None]
    ELSE [state |-> "failed", url |-> None, is_sidecar |-> FALSE, error |-> s.error]

NoResult == [kind |-> None, cmd |-> None, msg |-> None, status |-> NoStatus]
Ok(c, st) == [kind |-> "ok", cmd |-> c, msg |-> None, status |-> st]
Err(c, m) == [kind |-> "err", cmd |-> c, msg |-> m, status |-> NoStatus]

\* ---------------------------------------------------------------- run()
\* AppState as run() builds it; auto_connect is spawned by setup, the commands
\* are registered, monitor_sidecar is spawned nowhere.
InitShared ==
    /\ gateway_state = Disconnected
    /\ gateway_url = DefaultGatewayUrl
    /\ sidecar_process = NoChild
    /\ process_lock = None
    /\ procs = [p \in Pids |-> "unspawned"]
    /\ op = [t \in CmdTasks |-> None]
    /\ arg = [t \in Tasks |-> None]
    /\ child = [t \in Tasks |-> NoChild]
    /\ taken = [t \in Tasks |-> NoChild]
    /\ elapsed = [t \in Tasks |-> 0]
    /\ err = None
    /\ result = NoResult

\* No guard alive, nobody queued, no lock script running.
InitLocks ==
    /\ guards = [l \in Locks |-> {}]
    /\ waiters = [l \in Locks |-> <<>>]
    /\ script = [t \in Tasks |-> <<>>]

InitLocator ==
    /\ disk = {}
    /\ gateway_path = None

Init ==
    /\ InitShared
    /\ pc = [t \in Tasks |-> IF t \in CmdTasks THEN "idle"
                             ELSE IF t = AutoTask THEN "ac_read_url"
                             ELSE "unspawned"]
    /\ InitLocks
    /\ InitLocator

\* ---------------------------------------------------------------- start_sidecar
\* How start_sidecar's Err(e) reaches its caller: start_gateway returns it (`?`),
\* auto_connect goes on to record it, monitor_sidecar drops it (`let _ =`).
SidecarErr(t, e) ==
    IF t \in CmdTasks
    THEN /\ pc' = [pc EXCEPT ![t] = "idle"]
         /\ result' = Err("start", e)
         /\ op' = [op EXCEPT ![t] = None]
         /\ err' = err
    ELSE IF t = AutoTask
    THEN /\ pc' = [pc EXCEPT ![t] = "ac_failed"]
         /\ err' = e
         /\ UNCHANGED <<result, op>>
    ELSE /\ pc' = [pc EXCEPT ![t] = "mon_sleep"]
         /\ UNCHANGED <<result, op, err>>

\* Where the caller goes on after start_sidecar's Ok(()).
SidecarOkPc(t) ==
    IF t \in CmdTasks THEN "sg_status"
    ELSE IF t = AutoTask THEN "done"
    ELSE "mon_sleep"

FreePids == {p \in Pids : procs[p] = "unspawned"}
NextPid == CHOOSE p \in FreePids : \A q \in FreePids : p <= q

\* The head of start_sidecar, entered by task t:
\*   *state.gateway_state.write().await = GatewayState::Starting;
\*   let gateway_path = find_gateway_binary()?;
\*   let child = Command::new(&gateway_path)...spawn().map_err(..)?;
\* The operating system refuses the spawn once MaxSpawns processes were made.
StartSidecarEnter(t) ==
    /\ gateway_state' = Starting
    /\ \E fs \in FileSystems, spawn_ok \in BOOLEAN :
         IF find_gateway_binary(fs) = NotFound
         THEN /\ SidecarErr(t, ErrNotFound)
              /\ UNCHANGED <<procs, child>>
         ELSE IF ~spawn_ok \/ FreePids = {}
         THEN /\ SidecarErr(t, ErrSpawn)
              /\ UNCHANGED <<procs, child>>
         ELSE /\ procs' = [procs EXCEPT ![NextPid] = "running"]
              /\ child' = [child EXCEPT ![t] = NextPid]
              /\ pc' = [pc EXCEPT ![t] = "ss_store"]
              /\ op' = IF t \in CmdTasks THEN [op EXCEPT ![t] = "start"] ELSE op
              /\ UNCHANGED <<err, result>>
    /\ UNCHANGED <<gateway_url, sidecar_process, process_lock, arg, taken, elapsed>>
    /\ UNCHANGED <<lockview, locator>>

\* start_sidecar called by auto_connect or by monitor_sidecar.
StartSidecarStarting(t) ==
    /\ pc[t] = "ss_starting"
    /\ StartSidecarEnter(t)

\* *state.sidecar_process.write().await = Some(child): the local `child` moves
\* into the field; the Child held before is dropped, which neither kills nor
\* reaps its process.
StartSidecarStore(t) ==
    /\ pc[t] = "ss_store"
    /\ process_lock = None
    /\ sidecar_process' = child[t]
    /\ child' = [child EXCEPT ![t] = NoChild]
    /\ elapsed' = [elapsed EXCEPT ![t] = 0]
    /\ pc' = [pc EXCEPT ![t] = "ss_wait"]
    /\ UNCHANGED <<gateway_state, gateway_url, process_lock, procs, op, arg, taken,
                   err, result>>
    /\ UNCHANGED <<lockview, locator>>

\* WaitForGateway with `<=` for `<` in the loop condition: one more poll once
\* the timeout has elapsed.
WaitForGatewayOverrun(t) ==
    /\ pc[t] = "ss_wait"
    /\ elapsed[t] <= StartupPolls
    /\ elapsed' = [elapsed EXCEPT ![t] = elapsed[t] + 1]
    /\ UNCHANGED <<shared, process_lock, procs, pc, op, arg, child, taken, err, result>>
    /\ UNCHANGED <<lockview, locator>>

\* wait_for_gateway(url, GATEWAY_STARTUP_TIMEOUT), a round that goes on polling:
\* start.elapsed() < timeout, the probe fails, sleep(check_interval).
WaitForGateway(t) ==
    /\ pc[t] = "ss_wait"
    /\ elapsed[t] < StartupPolls
    /\ elapsed' = [elapsed EXCEPT ![t] = elapsed[t] + 1]
    /\ UNCHANGED <<shared, process_lock, procs, pc, op, arg, child, taken, err, result>>
    /\ UNCHANGED <<lockview, locator>>

\* wait_for_gateway returns true (a probe succeeded while time remained):
\* *state.gateway_state.write().await = Connected { url, is_sidecar: true }; Ok(())
StartSidecarConnected(t) ==
    /\ pc[t] = "ss_wait"
    /\ elapsed[t] < StartupPolls
    /\ gateway_state' = Connected(LocalUrl, TRUE)
    /\ elapsed' = [elapsed EXCEPT ![t] = 0]
    /\ pc' = [pc EXCEPT ![t] = SidecarOkPc(t)]
    /\ UNCHANGED <<gateway_url, sidecar_process, process_lock, procs, op, arg, child,
                   taken, err, result>>
    /\ UNCHANGED <<lockview, locator>>

\* not ready, after stop_sidecar: state = Failed { .. }; Err(..)
StartSidecarFailed(t) ==
    /\ pc[t] = "ss_failed"
    /\ gateway_state' = Failed(ErrTimeout)
    /\ SidecarErr(t, ErrTimeout)
    /\ UNCHANGED <<gateway_url, sidecar_process, process_lock, procs, arg, child, taken,
                   elapsed>>
    /\ UNCHANGED <<lockview, locator>>

\* ---------------------------------------------------------------- stop_sidecar
\* StopSidecarTake with `process.as_ref()` for `process.take()`: the handle stays.
StopSidecarPeek(t) ==
    /\ process_lock = None
    /\ process_lock' = t
    /\ taken' = [taken EXCEPT ![t] = sidecar_process]
    /\ sidecar_process' = sidecar_process
    /\ pc' = [pc EXCEPT ![t] = IF sidecar_process = NoChild THEN "stop_state" ELSE "stop_kill"]
    /\ UNCHANGED <<gateway_state, gateway_url, procs, arg, child, err, result>>
    /\ UNCHANGED <<lockview, locator>>

\* let mut process = state.sidecar_process.write().await; process.take();
\* with a child: kill -TERM <pid>, then the two-second sleep, the guard still held.
StopSidecarTake(t) ==
    /\ process_lock = None
    /\ process_lock' = t
    /\ taken' = [taken EXCEPT ![t] = sidecar_process]
    /\ sidecar_process' = NoChild
    /\ pc' = [pc EXCEPT ![t] = IF sidecar_process = NoChild THEN "stop_state" ELSE "stop_kill"]
    /\ UNCHANGED <<gateway_state, gateway_url, procs, arg, child, err, result>>
    /\ UNCHANGED <<lockview, locator>>

\* wait_for_gateway returns false (the timeout has elapsed): stop_sidecar(state).await
StartSidecarTimeout(t) ==
    /\ pc[t] = "ss_wait"
    /\ elapsed[t] >= StartupPolls
    /\ elapsed' = [elapsed EXCEPT ![t] = 0]
    /\ op' = op
    /\ StopSidecarTake(t)

\* child.kill(); child.wait()
StopKill(t) ==
    /\ pc[t] = "stop_kill"
    /\ procs' = [procs EXCEPT ![taken[t]] = "exited"]
    /\ pc' = [pc EXCEPT ![t] = "stop_state"]
    /\ UNCHANGED <<shared, process_lock, op, locals, result>>
    /\ UNCHANGED <<lockview, locator>>

InStopGateway(t) == t \in CmdTasks /\ op[t] = "stop"

\* *state.gateway_state.write().await = Disconnected; the guard `process` is
\* dropped as the function returns: to stop_gateway, which returns Ok(()), or
\* to start_sidecar.
StopState(t) ==
    /\ pc[t] = "stop_state"
    /\ gateway_state' = Disconnected
    /\ process_lock' = None
    /\ taken' = [taken EXCEPT ![t] = NoChild]
    /\ IF InStopGateway(t)
       THEN /\ pc' = [pc EXCEPT ![t] = "idle"]
            /\ result' = Ok("stop", NoStatus)
            /\ op' = [op EXCEPT ![t] = None]
       ELSE /\ pc' = [pc EXCEPT ![t] = "ss_failed"]
            /\ UNCHANGED <<result, op>>
    /\ UNCHANGED <<gateway_url, sidecar_process, procs, arg, child, elapsed, err>>
    /\ UNCHANGED <<lockview, locator>>

\* ---------------------------------------------------------------- commands
\* StartGatewayUrl recording a failed probe as Failed, the way auto_connect
\* records a failed bring-up.
StartGatewayUrlClobbers(t) ==
    /\ pc[t] = "idle"
    /\ \E u \in Urls, probe_ok \in BOOLEAN :
         IF probe_ok
         THEN /\ gateway_state' = Connected(u, FALSE)
              /\ pc' = [pc EXCEPT ![t] = "sg_url"]
              /\ op' = [op EXCEPT ![t] = "start_url"]
              /\ arg' = [arg EXCEPT ![t] = u]
              /\ result' = result
         ELSE /\ result' = Err("start_url", ErrConnect)
              /\ gateway_state' = Failed(ErrConnect)
              /\ UNCHANGED <<pc, op, arg>>
    /\ UNCHANGED <<gateway_url, sidecar_process, process_lock, procs, child, taken,
                   elapsed, err>>
    /\ UNCHANGED <<lockview, locator>>

\* start_gateway, request.url = Some(url): probe_gateway(&url); on success
\* *state.gateway_state.write().await = Connected { url, is_sidecar: false };
\* on failure Err(..), nothing written.
StartGatewayUrl(t) ==
    /\ pc[t] = "idle"
    /\ \E u \in Urls, probe_ok \in BOOLEAN :
         IF probe_ok
         THEN /\ gateway_state' = Connected(u, FALSE)
              /\ pc' = [pc EXCEPT ![t] = "sg_url"]
              /\ op' = [op EXCEPT ![t] = "start_url"]
              /\ arg' = [arg EXCEPT ![t] = u]
              /\ result' = result
         ELSE /\ result' = Err("start_url", ErrConnect)
              /\ UNCHANGED <<gateway_state, pc, op, arg>>
    /\ UNCHANGED <<gateway_url, sidecar_process, process_lock, procs, child, taken,
                   elapsed, err>>
    /\ UNCHANGED <<lockview, locator>>

\* *state.gateway_url.write().await = Some(url); Ok(GatewayStatus { .. })
StartGatewayUrlStore(t) ==
    /\ pc[t] = "sg_url"
    /\ gateway_url' = arg[t]
    /\ result' = Ok("start_url", get_gateway_status(Connected(arg[t], FALSE)))
    /\ pc' = [pc EXCEPT ![t] = "idle"]
    /\ op' = [op EXCEPT ![t] = None]
    /\ arg' = [arg EXCEPT ![t] = None]
    /\ UNCHANGED <<gateway_state, sidecar_process, process_lock, procs, child, taken,
                   elapsed, err>>
    /\ UNCHANGED <<lockview, locator>>

\* start_gateway, request.url = None: gateway::start_sidecar(&state).await?
StartGateway(t) ==
    /\ pc[t] = "idle"
    /\ StartSidecarEnter(t)

\* ... then get_gateway_status(state).await
StartGatewayStatus(t) ==
    /\ pc[t] = "sg_status"
    /\ result' = Ok("start", get_gateway_status(gateway_state))
    /\ pc' = [pc EXCEPT ![t] = "idle"]
    /\ op' = [op EXCEPT ![t] = None]
    /\ UNCHANGED <<shared, process_lock, procs, locals>>
    /\ UNCHANGED <<lockview, locator>>

\* stop_gateway: gateway::stop_sidecar(&state).await; Ok(())
StopGateway(t) ==
    /\ pc[t] = "idle"
    /\ op' = [op EXCEPT ![t] = "stop"]
    /\ elapsed' = elapsed
    /\ StopSidecarTake(t)

\* ---------------------------------------------------------------- auto_connect
\* let url = state.gateway_url.read().await.clone()
AutoConnectReadUrl ==
    /\ pc[AutoTask] = "ac_read_url"
    /\ arg' = [arg EXCEPT ![AutoTask] = gateway_url]
    /\ pc' = [pc EXCEPT ![AutoTask] = IF gateway_url = None THEN "ss_starting" ELSE "ac_probe"]
    /\ UNCHANGED <<shared, process_lock, procs, op, child, taken, elapsed, err, result>>
    /\ UNCHANGED <<lockview, locator>>

\* probe_gateway(&url) succeeds: state = Connected { url, is_sidecar: false }; return
AutoConnectConnected ==
    /\ pc[AutoTask] = "ac_probe"
    /\ gateway_state' = Connected(arg[AutoTask], FALSE)
    /\ arg' = [arg EXCEPT ![AutoTask] = None]
    /\ pc' = [pc EXCEPT ![AutoTask] = "done"]
    /\ UNCHANGED <<gateway_url, sidecar_process, process_lock, procs, op, child, taken,
                   elapsed, err, result>>
    /\ UNCHANGED <<lockview, locator>>

\* probe_gateway(&url) fails: "no existing gateway found", on to start_sidecar
AutoConnectNoGateway ==
    /\ pc[AutoTask] = "ac_probe"
    /\ arg' = [arg EXCEPT ![AutoTask] = None]
    /\ pc' = [pc EXCEPT ![AutoTask] = "ss_starting"]
    /\ UNCHANGED <<shared, process_lock, procs, op, child, taken, elapsed, err, result>>
    /\ UNCHANGED <<lockview, locator>>

\* AutoConnectFailed dropping the error the way monitor_sidecar does (`let _ =`).
AutoConnectFailedSilent ==
    /\ pc[AutoTask] = "ac_failed"
    /\ gateway_state' = gateway_state
    /\ err' = None
    /\ pc' = [pc EXCEPT ![AutoTask] = "done"]
    /\ UNCHANGED <<gateway_url, sidecar_process, process_lock, procs, op, arg, child,
                   taken, elapsed, result>>
    /\ UNCHANGED <<lockview, locator>>

\* if let Err(e) = start_sidecar(..) { state = Failed { error: e.to_string() } }
AutoConnectFailed ==
    /\ pc[AutoTask] = "ac_failed"
    /\ gateway_state' = Failed(err)
    /\ err' = None
    /\ pc' = [pc EXCEPT ![AutoTask] = "done"]
    /\ UNCHANGED <<gateway_url, sidecar_process, process_lock, procs, op, arg, child,
                   taken, elapsed, result>>
    /\ UNCHANGED <<lockview, locator>>

\* ---------------------------------------------------------------- monitor_sidecar
\* MonitorTick with a retry: a tick that finds Failed goes back to the restart.
MonitorTickRetrying ==
    /\ pc[MonTask] = "mon_sleep"
    /\ \/ /\ IsSidecarConnected(gateway_state)
          /\ pc' = [pc EXCEPT ![MonTask] = "mon_probe"]
          /\ arg' = [arg EXCEPT ![MonTask] = gateway_state.url]
       \/ /\ gateway_state.tag = "Failed"
          /\ pc' = [pc EXCEPT ![MonTask] = "ss_starting"]
          /\ arg' = arg
    /\ UNCHANGED <<shared, process_lock, procs, op, child, taken, elapsed, err, result>>
    /\ UNCHANGED <<lockview, locator>>

\* sleep(HEALTH_CHECK_INTERVAL); let current_state = gateway_state.read().await.clone();
\* anything but Connected { is_sidecar: true } ends the tick with nothing
\* changed: the loop sleeps again, which is no step of the model.
MonitorTick ==
    /\ pc[MonTask] = "mon_sleep"
    /\ IsSidecarConnected(gateway_state)
    /\ pc' = [pc EXCEPT ![MonTask] = "mon_probe"]
    /\ arg' = [arg EXCEPT ![MonTask] = gateway_state.url]
    /\ UNCHANGED <<shared, process_lock, procs, op, child, taken, elapsed, err, result>>
    /\ UNCHANGED <<lockview, locator>>

\* probe_gateway(&url) succeeds: the tick ends.
MonitorHealthy ==
    /\ pc[MonTask] = "mon_probe"
    /\ pc' = [pc EXCEPT ![MonTask] = "mon_sleep"]
    /\ arg' = [arg EXCEPT ![MonTask] = None]
    /\ UNCHANGED <<shared, process_lock, procs, op, child, taken, elapsed, err, result>>
    /\ UNCHANGED <<lockview, locator>>

\* MonitorCheck escalating every failed probe: the arm Ok(None) treated as Ok(Some(_)).
MonitorCheckEager ==
    /\ pc[MonTask] = "mon_probe"
    /\ process_lock = None
    /\ arg' = [arg EXCEPT ![MonTask] = None]
    /\ \E try_wait_ok \in BOOLEAN :
         IF sidecar_process /= NoChild /\ try_wait_ok
         THEN /\ sidecar_process' = NoChild
              /\ pc' = [pc EXCEPT ![MonTask] = "mon_failed"]
         ELSE /\ sidecar_process' = sidecar_process
              /\ pc' = [pc EXCEPT ![MonTask] = "mon_sleep"]
    /\ UNCHANGED <<gateway_state, gateway_url, process_lock, procs, op, child, taken,
                   elapsed, err, result>>
    /\ UNCHANGED <<lockview, locator>>

\* The probe failed: let mut process = sidecar_process.write().await;
\* if let Some(child) = *process { match child.try_wait() { .. } }
\*   Ok(Some(status)): *process = None; drop(process);
\*   Ok(None), Err(e), and no child at all: log only; the guard is dropped as
\*   the block ends.
MonitorCheck ==
    /\ pc[MonTask] = "mon_probe"
    /\ process_lock = None
    /\ arg' = [arg EXCEPT ![MonTask] = None]
    /\ \E try_wait_ok \in BOOLEAN :
         IF sidecar_process /= NoChild /\ try_wait_ok /\ procs[sidecar_process] = "exited"
         THEN /\ sidecar_process' = NoChild
              /\ pc' = [pc EXCEPT ![MonTask] = "mon_failed"]
         ELSE /\ sidecar_process' = sidecar_process
              /\ pc' = [pc EXCEPT ![MonTask] = "mon_sleep"]
    /\ UNCHANGED <<gateway_state, gateway_url, process_lock, procs, op, child, taken,
                   elapsed, err, result>>
    /\ UNCHANGED <<lockview, locator>>

\* *state.gateway_state.write().await = Failed { error: "gateway exited .." };
\* then sleep(1s) and start_sidecar
MonitorFailed ==
    /\ pc[MonTask] = "mon_failed"
    /\ gateway_state' = Failed(ErrExited)
    /\ pc' = [pc EXCEPT ![MonTask] = "ss_starting"]
    /\ UNCHANGED <<gateway_url, sidecar_process, process_lock, procs, op, locals, result>>
    /\ UNCHANGED <<lockview, locator>>

\* ---------------------------------------------------------------- environment
\* A gateway process the supervisor spawned exits on its own.
ProcessExit(p) ==
    /\ procs[p] = "running"
    /\ procs' = [procs EXCEPT ![p] = "exited"]
    /\ UNCHANGED <<shared, process_lock, pc, op, locals, result>>
    /\ UNCHANGED <<lockview, locator>>

\* ---------------------------------------------------------------- specifications
Sidecar(t) ==
    \/ StartSidecarStarting(t)
    \/ StartSidecarStore(t)
    \/ WaitForGateway(t)
    \/ StartSidecarConnected(t)
    \/ StartSidecarTimeout(t)
    \/ StartSidecarFailed(t)
    \/ StopKill(t)
    \/ StopState(t)

Command(t) ==
    \/ StartGatewayUrl(t)
    \/ StartGatewayUrlStore(t)
    \/ StartGateway(t)
    \/ StartGatewayStatus(t)
    \/ StopGateway(t)

AutoConnect ==
    \/ AutoConnectReadUrl
    \/ AutoConnectConnected
    \/ AutoConnectNoGateway
    \/ AutoConnectFailed

Monitor ==
    \/ MonitorTick
    \/ MonitorHealthy
    \/ MonitorCheck
    \/ MonitorFailed

Environment == \E p \in Pids : ProcessExit(p)

\* The application as run() starts it: the commands and auto_connect.
Next ==
    \/ \E t \in CmdTasks : Command(t)
    \/ \E t \in CmdTasks \cup {AutoTask} : Sidecar(t)
    \/ AutoConnect
    \/ Environment

Spec == Init /\ [][Next]_vars

\* The same application with monitor_sidecar spawned beside auto_connect.
InitMon ==
    /\ InitShared
    /\ pc = [t \in Tasks |-> IF t \in CmdTasks THEN "idle"
                             ELSE IF t = AutoTask THEN "ac_read_url"
                             ELSE "mon_sleep"]
    /\ InitLocks
    /\ InitLocator

NextMon ==
    \/ \E t \in MonCmdTasks : Command(t)
    \/ \E t \in MonCmdTasks \cup {AutoTask, MonTask} : Sidecar(t)
    \/ AutoConnect
    \/ Monitor
    \/ Environment

SpecMon == InitMon /\ [][NextMon]_vars

\* ---------------------------------------------------------------- fairness
\* The runtime polls every task that can go on, so no step of a task that has
\* been started stays enabled for ever without being taken; the RwLock queues
\* its waiters in arrival order, so a task waiting for the guard of
\* sidecar_process gets it once it has been released often enough.  Nothing
\* obliges the frontend to issue a command or a gateway process to exit.
TaskFairness(t) ==
    /\ WF_vars(Sidecar(t))
    /\ SF_vars(StartSidecarStore(t))
    /\ SF_vars(StartSidecarTimeout(t))

CommandFairness(t) ==
    /\ TaskFairness(t)
    /\ WF_vars(StartGatewayUrlStore(t) \/ StartGatewayStatus(t))

FairSpec ==
    /\ Spec
    /\ \A t \in CmdTasks : CommandFairness(t)
    /\ TaskFairness(AutoTask)
    /\ WF_vars(AutoConnect)

FairSpecMon ==
    /\ SpecMon
    /\ \A t \in MonCmdTasks : CommandFairness(t)
    /\ TaskFairness(AutoTask)
    /\ WF_vars(AutoConnect)
    /\ TaskFairness(MonTask)
    /\ WF_vars(Monitor)
    /\ SF_vars(MonitorCheck)

\* One command in flight beside auto_connect, fairly scheduled.
NextSingle ==
    \/ \E t \in MonCmdTasks : Command(t)
    \/ \E t \in MonCmdTasks \cup {AutoTask} : Sidecar(t)
    \/ AutoConnect
    \/ Environment

SpecSingle == Init /\ [][NextSingle]_vars

FairSpecSingle ==
    /\ SpecSingle
    /\ \A t \in MonCmdTasks : CommandFairness(t)
    /\ TaskFairness(AutoTask)
    /\ WF_vars(AutoConnect)

\* ---------------------------------------------------------------- the locator on its own
\* find_gateway_binary run once on any machine.
InitLocate ==
    /\ InitShared
    /\ pc = [t \in Tasks |-> "unspawned"]
    /\ InitLocks
    /\ disk \in Disks
    /\ gateway_path = None

\* let gateway_path = find_gateway_binary()
FindGatewayBinary ==
    /\ gateway_path = None
    /\ gateway_path' = find_gateway_binary(disk)
    /\ UNCHANGED <<app, lockview, disk>>

NextLocate == FindGatewayBinary

SpecLocate == InitLocate /\ [][NextLocate]_vars

\* ---------------------------------------------------------------- the lock discipline
\* The same functions seen as what they do to the three RwLocks and nothing
\* else.  A script is the sequence of lock operations along one path through a
\* function; a function is the set of its scripts.
Acq(l, m) == [do |-> "acquire", lock |-> l, mode |-> m]
Rel(l) == [do |-> "release", lock |-> l, mode |-> None]
\* A guard that is a temporary of one statement:
\* `*state.gateway_state.write().await = ..`, `state.gateway_url.read().await.clone()`.
Touch(l, m) == <<Acq(l, m), Rel(l)>>

\* s1 \o s2 for every script s1 of the first function and s2 of the second.
Then(f1, f2) == {s1 \o s2 : s1 \in f1, s2 \in f2}

\* get_gateway_status: the read guard `gateway_state` lives to the end of the function.
GetGatewayStatusLocks == {Touch("gateway_state", "read")}

\* AppState::is_connected
IsConnectedLocks == {Touch("gateway_state", "read")}

\* AppState::gateway_url: the read guard of gateway_state is the scrutinee of
\* the match and lives through it; the arm `_` reads gateway_url under it.
GatewayUrlLocks ==
    { Touch("gateway_state", "read"),
      <<Acq("gateway_state", "read")>> \o Touch("gateway_url", "read")
          \o <<Rel("gateway_state")>> }

\* stop_sidecar: `process` is held from the first line to the return, the
\* state is written under it.
StopSidecarLocks ==
    { <<Acq("sidecar_process", "write")>> \o Touch("gateway_state", "write")
          \o <<Rel("sidecar_process")>> }

\* start_sidecar: Starting and an early return; or Starting, the store of the
\* handle, and then Connected, or stop_sidecar and Failed.
StartSidecarOkLocks ==
    { Touch("gateway_state", "write") \o Touch("sidecar_process", "write")
          \o Touch("gateway_state", "write") }

StartSidecarErrLocks ==
    {Touch("gateway_state", "write")}
    \cup Then({Touch("gateway_state", "write") \o Touch("sidecar_process", "write")},
              Then(StopSidecarLocks, {Touch("gateway_state", "write")}))

StartSidecarLocks == StartSidecarOkLocks \cup StartSidecarErrLocks

\* start_gateway: with a url whose probe succeeds the state, then the url,
\* are written (a failed probe takes no lock); without a url start_sidecar,
\* and get_gateway_status after its Ok.
StartGatewayLocks ==
    {Touch("gateway_state", "write") \o Touch("gateway_url", "write")}
    \cup Then(StartSidecarOkLocks, GetGatewayStatusLocks)
    \cup StartSidecarErrLocks

\* stop_gateway
StopGatewayLocks == StopSidecarLocks

\* auto_connect: the url is read; then Connected is written, or start_sidecar
\* runs and its error is recorded.
AutoConnectLocks ==
    Then({Touch("gateway_url", "read")},
         {Touch("gateway_state", "write")}
         \cup StartSidecarOkLocks
         \cup Then(StartSidecarErrLocks, {Touch("gateway_state", "write")}))

\* MonitorSidecarLocks without `drop(process)`: the guard lives to the end of
\* the arm, across the Failed write and the restart.
MonitorSidecarLocksNoDrop ==
    Then({Touch("gateway_state", "read")},
         {<<>>, <<Acq("sidecar_process", "write"), Rel("sidecar_process")>>}
         \cup Then({<<Acq("sidecar_process", "write")>> \o Touch("gateway_state", "write")},
                   Then(StartSidecarLocks, {<<Rel("sidecar_process")>>})))

\* monitor_sidecar, one tick: the state is read; after a failed probe `process`
\* is taken, and either dropped at the end of the block, or dropped at once
\* (`drop(process)`) before the Failed write and the restart.
MonitorSidecarLocks ==
    Then({Touch("gateway_state", "read")},
         {<<>>, <<Acq("sidecar_process", "write"), Rel("sidecar_process")>>}
         \cup Then({<<Acq("sidecar_process", "write"), Rel("sidecar_process")>>
                       \o Touch("gateway_state", "write")},
                   StartSidecarLocks))

\* What each task calls: the frontend any command or accessor, over and over.
LocksOf(t) ==
    IF t \in CmdTasks
    THEN GetGatewayStatusLocks \cup IsConnectedLocks \cup GatewayUrlLocks
         \cup StartGatewayLocks \cup StopGatewayLocks
    ELSE IF t = AutoTask THEN AutoConnectLocks
    ELSE MonitorSidecarLocks

Holds(t, l) == \E g \in guards[l] : g.task = t
Queued(t, l) == \E i \in 1..Len(waiters[l]) : waiters[l][i].task = t
Waiting(t) == \E l \in Locks : Queued(t, l)

\* tokio's RwLock: a write guard excludes every other guard, read guards share.
Compatible(l, m) ==
    IF m = "write" THEN guards[l] = {} ELSE \A g \in guards[l] : g.mode = "read"

InitLockView ==
    /\ InitShared
    /\ pc = [t \in Tasks |-> "unspawned"]
    /\ InitLocks
    /\ InitLocator

\* Task t enters a function (the monitor: its next tick).
Call(t) ==
    /\ script[t] = <<>>
    /\ \E s \in LocksOf(t) : s /= <<>> /\ script' = [script EXCEPT ![t] = s]
    /\ UNCHANGED <<app, locator, guards, waiters>>

\* lock.read().await / lock.write().await: the request joins the queue.
Request(t) ==
    /\ script[t] /= <<>>
    /\ Head(script[t]).do = "acquire"
    /\ ~Queued(t, Head(script[t]).lock)
    /\ waiters' = [waiters EXCEPT ![Head(script[t]).lock] =
                      Append(@, [task |-> t, mode |-> Head(script[t]).mode])]
    /\ UNCHANGED <<app, locator, guards, script>>

\* The request at the head of the queue is granted once the guards alive allow it.
Acquire(t) ==
    /\ script[t] /= <<>>
    /\ Head(script[t]).do = "acquire"
    /\ LET l == Head(script[t]).lock
       IN /\ waiters[l] /= <<>>
          /\ Head(waiters[l]).task = t
          /\ Compatible(l, Head(waiters[l]).mode)
          /\ guards' = [guards EXCEPT ![l] = @ \cup {Head(waiters[l])}]
          /\ waiters' = [waiters EXCEPT ![l] = Tail(@)]
    /\ script' = [script EXCEPT ![t] = Tail(@)]
    /\ UNCHANGED <<app, locator>>

\* The guard is dropped.
Release(t) ==
    /\ script[t] /= <<>>
    /\ Head(script[t]).do = "release"
    /\ guards' = [guards EXCEPT ![Head(script[t]).lock] = {g \in @ : g.task /= t}]
    /\ script' = [script EXCEPT ![t] = Tail(@)]
    /\ UNCHANGED <<app, locator, waiters>>

LockStep(t) == Request(t) \/ Acquire(t) \/ Release(t)

\* One frontend call at a time beside auto_connect and the monitor.
LockTasks == MonCmdTasks \cup {AutoTask, MonTask}

NextLocks == \E t \in LockTasks : Call(t) \/ LockStep(t)

SpecLocks == InitLockView /\ [][NextLocks]_vars

\* A task that has entered a function goes on through it whenever it can; the
\* frontend is obliged to call nothing.
FairSpecLocks == SpecLocks /\ \A t \in LockTasks : WF_vars(LockStep(t))

\* ---------------------------------------------------------------- claims
HandleStored == sidecar_process /= NoChild

\* No command is running and auto_connect has returned.
Quiescent ==
    /\ \A t \in CmdTasks : pc[t] = "idle"
    /\ pc[AutoTask] = "done"

\* C1: once the start and stop commands issued so far have returned, a gateway
\* state of Disconnected or of Connected{is_sidecar=false} comes with no stored
\* child process handle.
C1_NoHandleUnlessSidecar ==
    (Quiescent /\ (gateway_state = Disconnected
                   \/ (gateway_state.tag = "Connected" /\ ~gateway_state.is_sidecar)))
        => ~HandleStored

\* C2: in every reachable state, Connected{is_sidecar=true} comes with a stored
\* child process handle.
C2_SidecarConnectedHasHandle ==
    IsSidecarConnected(gateway_state) => HandleStored

\* start_gateway (no url) returns start_sidecar's error e to the frontend in this step.
StartReturnsErr(t, e) ==
    /\ t \in CmdTasks
    /\ pc[t] \in {"idle", "ss_failed"}
    /\ pc'[t] = "idle"
    /\ result' /= result
    /\ result' = Err("start", e)

\* C3: when start() with no address fails because the binary is not found or
\* the spawn fails, the gateway state is Failed as the call returns.
C3_LocateOrSpawnFailureRecordsFailed ==
    [][\A t \in CmdTasks : \A e \in {ErrNotFound, ErrSpawn} :
          StartReturnsErr(t, e) => gateway_state' = Failed(e)]_vars

\* Task t is inside start_sidecar, past its first line.
InBringUp(t) ==
    \/ pc[t] \in {"ss_store", "ss_wait", "ss_failed"}
    \/ pc[t] \in {"stop_kill", "stop_state"} /\ ~InStopGateway(t)

\* C4: no two sidecar bring-up sequences are in progress at the same time.
C4_BringUpSerialized ==
    \A t1, t2 \in Tasks : (InBringUp(t1) /\ InBringUp(t2)) => t1 = t2

\* C7: when no probe succeeds within the start-up timeout, start_sidecar runs
\* the shutdown routine first (the child taken is dead, the handle cleared)
\* and only then records Failed; as it returns the state is Failed, no handle
\* is stored, and the error goes to the caller.
C7_TimeoutCleansUpThenFails ==
    [][\A t \in Tasks :
          /\ (pc[t] /= "ss_failed" /\ pc'[t] = "ss_failed")
                => /\ pc[t] = "stop_state"
                   /\ sidecar_process' = NoChild
                   /\ taken[t] /= NoChild => procs[taken[t]] = "exited"
          /\ (pc[t] = "ss_failed" /\ pc'[t] /= "ss_failed")
                => /\ gateway_state' = Failed(ErrTimeout)
                   /\ sidecar_process' = NoChild
                   /\ t \in CmdTasks => result' = Err("start", ErrTimeout)
                   /\ t = AutoTask => err' = ErrTimeout
      ]_vars

\* C8: the monitor tick that finds the stored child exited clears
\* the handle and then records Failed; the restart bring-up that follows, when
\* it succeeds, leaves Connected{is_sidecar=true} with a stored handle.
C8_ExitThenRestart ==
    [][/\ (pc[MonTask] = "mon_probe" /\ pc'[MonTask] = "mon_failed")
            => sidecar_process' = NoChild
       /\ (pc[MonTask] = "mon_failed" /\ pc'[MonTask] /= "mon_failed")
            => (gateway_state' = Failed(ErrExited) /\ pc'[MonTask] = "ss_starting")
       /\ (pc[MonTask] = "ss_wait" /\ pc'[MonTask] = "mon_sleep")
            => (gateway_state' = Connected(LocalUrl, TRUE) /\ sidecar_process' /= NoChild)
      ]_vars

\* start_gateway with a url returns in this step, the probe having failed.
StartUrlFails(t) ==
    /\ pc[t] = "idle"
    /\ pc'[t] = "idle"
    /\ result' /= result
    /\ result' = Err("start_url", ErrConnect)

\* C5: start() with an explicit address writes shared state only after a
\* successful probe: then the state becomes Connected{address, false} and next
\* the configured address becomes that address; a failed probe returns a
\* failure message and leaves state, configured address and handle as they were.
C5_ExplicitStartMutatesOnlyOnSuccess ==
    [][\A t \in CmdTasks :
          /\ StartUrlFails(t) => UNCHANGED <<gateway_state, gateway_url, sidecar_process>>
          /\ (pc[t] = "idle" /\ pc'[t] = "sg_url")
                => /\ arg'[t] \in Urls
                   /\ gateway_state' = Connected(arg'[t], FALSE)
                   /\ UNCHANGED <<gateway_url, sidecar_process>>
          /\ (pc[t] = "sg_url" /\ pc'[t] /= "sg_url")
                => /\ gateway_url' = arg[t]
                   /\ result' = Ok("start_url", get_gateway_status(Connected(arg[t], FALSE)))
                   /\ UNCHANGED <<gateway_state, sidecar_process>>
      ]_vars

\* An explicit start has just failed against a Connected sidecar state, which
\* is still in place with its handle, and the configured address has already
\* been changed by an earlier, successful explicit start.
C5_Witness ==
    /\ result = Err("start_url", ErrConnect)
    /\ IsSidecarConnected(gateway_state)
    /\ HandleStored
    /\ gateway_url = OtherUrl

\* C6: stop() returns success, and as it returns the state is Disconnected and
\* no handle is stored, whatever the state was when it was called; a stop()
\* that finds no handle goes straight to the state write, and no step of a
\* stop() touches a process other than the one whose handle it took.
C6_StopEndsDisconnectedNoHandle ==
    [][\A t \in CmdTasks :
          /\ (InStopGateway(t) /\ pc'[t] = "idle")
                => /\ gateway_state' = Disconnected
                   /\ sidecar_process' = NoChild
                   /\ result' = Ok("stop", NoStatus)
          /\ (pc[t] = "idle" /\ pc'[t] \in {"stop_kill", "stop_state"})
                => /\ sidecar_process' = NoChild
                   /\ (sidecar_process = NoChild
                         => (pc'[t] = "stop_state" /\ taken'[t] = NoChild /\ procs' = procs))
          /\ (InStopGateway(t) /\ pc'[t] /= pc[t])
                => \A p \in Pids : procs'[p] /= procs[p] => p = taken[t]
      ]_vars

\* Both command tasks have called stop() one after the other on a supervisor
\* that already held no handle: the second one is taking the lock with
\* nothing to take, after the first returned Ok with Disconnected in place.
C6_Witness ==
    /\ result = Ok("stop", NoStatus)
    /\ gateway_state = Disconnected
    /\ ~HandleStored
    /\ \E t \in CmdTasks : pc[t] = "stop_state" /\ InStopGateway(t) /\ taken[t] = NoChild
    /\ \A p \in Pids : procs[p] = "unspawned"

\* The stored handle is that of a process that has exited.
StoredChildExited == HandleStored /\ procs[sidecar_process] = "exited"

\* C9: in the application as run() starts it, an unexpected exit of the owned
\* sidecar while Connected{is_sidecar=true} is eventually followed by the
\* state leaving Connected{is_sidecar=true}, no command being needed for it.
C9_ExitEventuallyLeavesConnected ==
    (IsSidecarConnected(gateway_state) /\ StoredChildExited)
        ~> ~IsSidecarConnected(gateway_state)

\* The monitor's restart has returned with an error and nothing else is or
\* was going on: no command was ever issued, auto_connect has returned, the
\* state is still the Starting that the restart wrote, and the operating
\* system would still spawn a process.
MonitorRestartFailed ==
    /\ pc[MonTask] = "mon_sleep"
    /\ gateway_state = Starting
    /\ pc[AutoTask] = "done"
    /\ \A t \in CmdTasks : pc[t] = "idle"
    /\ result = NoResult
    /\ FreePids /= {}

\* C10 (as stated): while the gateway is not running after an unexpected
\* exit, the monitor keeps making restart attempts: a failed restart is
\* followed by another attempt, unless meanwhile the gateway has come up or a
\* stop() has put the supervisor to rest.
C10_RestartsRepeat ==
    MonitorRestartFailed
        ~> (pc[MonTask] = "ss_starting" \/ gateway_state.tag \in {"Connected", "Disconnected"})

\* C10 (amended): the monitor counts nothing and caps nothing, but it starts a
\* restart only out of a tick that found Connected{is_sidecar=true}, a failed
\* probe and the stored child exited, one restart for that exit; a tick that
\* finds any other state starts nothing.
C10_OneRestartPerDetectedExit ==
    [][/\ (pc[MonTask] = "mon_sleep" /\ pc'[MonTask] /= "mon_sleep")
            => (IsSidecarConnected(gateway_state) /\ pc'[MonTask] = "mon_probe")
       /\ (pc[MonTask] = "mon_probe" /\ pc'[MonTask] = "mon_failed")
            => StoredChildExited
       /\ (pc[MonTask] /= "ss_starting" /\ pc'[MonTask] = "ss_starting")
            => (pc[MonTask] = "mon_failed" /\ gateway_state' = Failed(ErrExited))
       /\ (pc[MonTask] = "ss_starting" /\ pc'[MonTask] /= "ss_starting")
            => pc'[MonTask] \in {"ss_store", "mon_sleep"}
      ]_vars

\* auto_connect brought the sidecar up, it exited, the monitor's one restart
\* spawned a second process and timed out; no command was ever issued.  The
\* state is Failed and the monitor is back in its sleep, where no tick starts
\* anything.
C10_Witness ==
    /\ pc[MonTask] = "mon_sleep"
    /\ gateway_state = Failed(ErrTimeout)
    /\ pc[AutoTask] = "done"
    /\ \A t \in CmdTasks : pc[t] = "idle"
    /\ result = NoResult
    /\ procs[1] = "exited"
    /\ procs[2] = "exited"
    /\ ~HandleStored

\* C11: auto_connect ends in one of three ways.  After a successful probe of
\* the configured address it writes Connected{address, false} and spawns
\* nothing; otherwise it enters the sidecar bring-up, and whenever the bring-up
\* returns an error (binary not found, spawn failure, start-up timeout) it
\* finishes by writing Failed{that error}; no step of it hands a Result to the
\* frontend.
C11_AutoConnectOutcome ==
    [][/\ (pc[AutoTask] = "ac_read_url" /\ pc'[AutoTask] /= "ac_read_url")
            => pc'[AutoTask] = (IF gateway_url = None THEN "ss_starting" ELSE "ac_probe")
       /\ (pc[AutoTask] = "ac_probe" /\ pc'[AutoTask] /= "ac_probe")
            => \/ /\ pc'[AutoTask] = "done"
                  /\ arg[AutoTask] \in Urls
                  /\ gateway_state' = Connected(arg[AutoTask], FALSE)
                  /\ UNCHANGED <<procs, sidecar_process>>
               \/ pc'[AutoTask] = "ss_starting"
       /\ (pc[AutoTask] = "ss_starting" /\ pc'[AutoTask] /= "ss_starting")
            => \/ pc'[AutoTask] = "ss_store"
               \/ pc'[AutoTask] = "ac_failed" /\ err' \in {ErrNotFound, ErrSpawn}
       /\ (pc[AutoTask] = "ss_failed" /\ pc'[AutoTask] /= "ss_failed")
            => (pc'[AutoTask] = "ac_failed" /\ err' = ErrTimeout)
       /\ (pc[AutoTask] = "ac_failed" /\ pc'[AutoTask] /= "ac_failed")
            => /\ pc'[AutoTask] = "done"
               /\ err \in {ErrNotFound, ErrSpawn, ErrTimeout}
               /\ gateway_state' = Failed(err)
       /\ (pc[AutoTask] /= "done" /\ pc'[AutoTask] = "done")
            => /\ pc[AutoTask] \in {"ac_probe", "ac_failed", "ss_wait"}
               /\ pc[AutoTask] = "ss_wait" => gateway_state' = Connected(LocalUrl, TRUE)
       /\ pc'[AutoTask] /= pc[AutoTask] => result' = result
      ]_vars

\* auto_connect has returned after a bring-up whose spawn failed: the state is
\* Failed with that error, no process was ever spawned and no command was
\* ever issued.
C11_Witness ==
    /\ pc[AutoTask] = "done"
    /\ gateway_state = Failed(ErrSpawn)
    /\ \A p \in Pids : procs[p] = "unspawned"
    /\ \A t \in CmdTasks : pc[t] = "idle"
    /\ result = NoResult

\* C13: the monitor acts only while the state is Connected{is_sidecar=true}:
\* a step of its tick (the read of the state, the check of the process, the
\* Failed write that leads into the restart) taken while the state is anything
\* else changes neither the gateway state nor the stored handle and leads
\* towards no restart, whatever the commands did to the state since the tick
\* read it.
C13_TickNoOpUnlessSidecarConnected ==
    [][(/\ pc[MonTask] \in {"mon_sleep", "mon_probe", "mon_failed"}
        /\ pc'[MonTask] /= pc[MonTask]
        /\ ~IsSidecarConnected(gateway_state))
          => /\ UNCHANGED <<gateway_state, sidecar_process>>
             /\ pc'[MonTask] \notin {"mon_failed", "ss_starting"}
      ]_vars

\* C14: when the restart bring-up run by the monitor returns an error, the
\* monitor goes back to its sleep (the error goes nowhere) and the gateway
\* state is then Failed.
C14_RestartFailureRecordsFailed ==
    [][(pc[MonTask] \in {"ss_starting", "ss_failed"} /\ pc'[MonTask] /= pc[MonTask]
        /\ pc'[MonTask] /= "ss_store")
          => (pc'[MonTask] = "mon_sleep" /\ gateway_state'.tag = "Failed")
      ]_vars

\* Task t is suspended in a network probe or in a sleep: auto_connect's probe,
\* the readiness poll, the grace period of stop_sidecar, the monitor's probe
\* and its sleep between ticks.
InWait(t) == pc[t] \in {"ac_probe", "ss_wait", "stop_kill", "mon_probe", "mon_sleep"}

\* C15: no task holds the write guard of the process handle while it is
\* suspended in a probe or a sleep.  (The write guard of the gateway state
\* lives for one statement everywhere in the code, so no step of the model
\* holds it.)
C15_NoWriteGuardAcrossWaits ==
    \A t \in Tasks : InWait(t) => process_lock /= t

\* C16: a tick whose probe fails while the stored child is still running
\* ends with the gateway state, the stored handle and the process untouched,
\* the monitor back in its sleep and no restart under way.
C16_TransientProbeFailureChangesNothing ==
    [][(/\ pc[MonTask] = "mon_probe"
        /\ pc'[MonTask] /= "mon_probe"
        /\ HandleStored
        /\ procs[sidecar_process] = "running")
          => /\ UNCHANGED <<gateway_state, sidecar_process, procs>>
             /\ pc'[MonTask] = "mon_sleep"
      ]_vars

\* The monitor has read Connected{is_sidecar=true} and is at its probe, the
\* stored child is running and the guard of the handle is free: the check of
\* the process is the monitor's next step.
C16_Witness ==
    /\ pc[MonTask] = "mon_probe"
    /\ IsSidecarConnected(gateway_state)
    /\ HandleStored
    /\ procs[sidecar_process] = "running"
    /\ process_lock = None

Alive == {p \in Pids : procs[p] = "running"}

\* C17: when the last command to return was a stop(), and no command and no
\* auto_connect is still running, the supervisor has no sidecar: the state is
\* not Connected{is_sidecar=true}, no handle is stored and no process the
\* supervisor spawned is alive.  (The claim says more, that the state is then
\* Disconnected; this is the part of it about the sidecar.)
C17_StopIsFinal ==
    (Quiescent /\ result = Ok("stop", NoStatus))
        => /\ ~IsSidecarConnected(gateway_state)
           /\ ~HandleStored
           /\ Alive = {}

\* C18: at most one process spawned by the supervisor is alive at any time.
C18_AtMostOneLiveChild ==
    Cardinality(Alive) <= 1

\* C20: wait_for_gateway polls only while time remains, each poll that fails
\* using up one round; it returns true (start_sidecar goes on to write
\* Connected) only from a poll made while time remained, and false (start_sidecar
\* goes on to stop_sidecar) only once the timeout has elapsed; and every wait
\* comes to an end.
C20_ReadinessWaiterTerminates ==
    /\ [][\A t \in Tasks :
            /\ (pc[t] = "ss_wait" /\ pc'[t] = "ss_wait" /\ elapsed'[t] /= elapsed[t])
                  => (elapsed[t] < StartupPolls /\ elapsed'[t] = elapsed[t] + 1)
            /\ (pc[t] = "ss_wait" /\ pc'[t] \in {"stop_kill", "stop_state"})
                  => elapsed[t] >= StartupPolls
            /\ (pc[t] = "ss_wait" /\ pc'[t] \notin {"ss_wait", "stop_kill", "stop_state"})
                  => /\ elapsed[t] < StartupPolls
                     /\ pc'[t] = SidecarOkPc(t)
                     /\ gateway_state' = Connected(LocalUrl, TRUE)
         ]_vars
    /\ \A t \in Tasks : (pc[t] = "ss_wait") ~> (pc[t] /= "ss_wait")

\* auto_connect's bring-up has polled until the timeout and is now in
\* stop_sidecar, in the grace period of the child it spawned.
C20_Witness ==
    /\ pc[AutoTask] = "stop_kill"
    /\ taken[AutoTask] /= NoChild
    /\ elapsed[AutoTask] = 0
    /\ gateway_state = Starting

\* The locator has returned a path.
Located == gateway_path \notin {None, NotFound}
IndexOf(path) == CHOOSE i \in 1..Len(Candidates) : Candidates[i].path = path
TierRank(tier) == CHOOSE k \in 1..Len(Tiers) : Tiers[k] = tier

\* C12: on every machine the locator returns an existing candidate such that
\* no candidate before it in the list exists, hence none of an earlier tier
\* in the order override, sidecar-relative, search path, development; it
\* reports not-found exactly when no candidate exists; an override that is
\* set and exists is returned whatever else exists; an override that is unset,
\* or set to a path that does not exist, is never returned and leaves the
\* result to the other tiers.
C12_LocatorPriority ==
    gateway_path /= None =>
        /\ gateway_path = NotFound
             <=> \A i \in 1..Len(Candidates) : ~Exists(disk, Candidates[i])
        /\ Located =>
             /\ gateway_path \in {Candidates[i].path : i \in 1..Len(Candidates)}
             /\ Exists(disk, Candidates[IndexOf(gateway_path)])
             /\ \A j \in 1..Len(Candidates) :
                  Exists(disk, Candidates[j]) =>
                     /\ IndexOf(gateway_path) <= j
                     /\ TierRank(Candidates[IndexOf(gateway_path)].tier)
                           <= TierRank(Candidates[j].tier)
        /\ (EnvSet \in disk /\ EnvPath \in disk) => gateway_path = EnvPath
        /\ (EnvSet \notin disk \/ EnvPath \notin disk) =>
             /\ gateway_path /= EnvPath
             /\ gateway_path = find_gateway_binary(disk \ {EnvSet, EnvPath})

\* The override is set and exists, a sidecar-relative binary and a development
\* build exist as well, and the locator has returned the override.
C12_Witness ==
    /\ gateway_path = EnvPath
    /\ "exe_dir/beacon" \in disk
    /\ "../../beacon-gateway/target/debug/beacon" \in disk
    /\ EnvSet \in disk

\* The order in which the locks nest.
Rank(l) ==
    IF l = "sidecar_process" THEN 1 ELSE IF l = "gateway_state" THEN 2 ELSE 3

\* C19: a task that asks for a lock while it holds another always asks in the
\* order sidecar_process, gateway_state, gateway_url (so no cycle of tasks
\* waiting for each other can form, and no task waits for a lock it holds);
\* and every task that has asked for a lock gets it.
C19_LocksDeadlockFree ==
    /\ [](\A t \in Tasks : \A l1, l2 \in Locks :
            (Holds(t, l1) /\ script[t] /= <<>> /\ Head(script[t]).do = "acquire"
               /\ Head(script[t]).lock = l2)
                => Rank(l1) < Rank(l2))
    /\ \A t \in Tasks : Waiting(t) ~> ~Waiting(t)

\* A stop_sidecar holds the guard of the handle and is queued for the write
\* guard of the state behind the accessor gateway_url(), which holds a read
\* guard of the state and has asked for gateway_url: two tasks each holding
\* one lock and asking for another.
C19_Witness ==
    \E t1, t2 \in Tasks :
        /\ t1 /= t2
        /\ Holds(t1, "sidecar_process") /\ Queued(t1, "gateway_state")
        /\ Holds(t2, "gateway_state") /\ Queued(t2, "gateway_url")

====
